---- MODULE Spec2Model ----
(***************************************************************************)
(* Workflow builders of matmethods/vasp/workflows/base/adsorption.py:      *)
(* get_wf_adsorption and get_wf_molecules, the objects they share across   *)
(* calls (the default-argument dictionaries of get_wf_adsorption, the      *)
(* caller's dictionaries and input sets), and the execution of a returned  *)
(* workflow by an engine that respects the parent links.                   *)
(*                                                                         *)
(* Python strings that the code takes apart character by character (the    *)
(* Miller-index keys) are sequences of one-character strings; dictionaries *)
(* are functions whose DOMAIN is the key set; dictionary values are written *)
(* as strings.                                                             *)
(***************************************************************************)
EXTENDS Integers, Sequences, FiniteSets, TLC

VARIABLES defaults, caller, visCfg, call, ret, fws, jobState

vars == <<defaults, caller, visCfg, call, ret, fws, jobState>>

(* ---------------- bounds of the model ---------------- *)
MaxKeys == 2    \* keys in one adsorbate_config
MaxMols == 2    \* molecules in one list
MaxSites == 2   \* adsorption structures the site finder returns per (slab, molecule)

(* ---------------- defaults of the signature ---------------- *)
DefaultMinSlabSize == 7
DefaultMinVacuumSize == 12
DefaultMaxNormalSearch == 1

(* ---------------- helpers: sequences and dictionaries ---------------- *)
Range(s) == {s[i] : i \in 1..Len(s)}

Abs(n) == IF n < 0 THEN -n ELSE n

SetMax(S) == CHOOSE m \in S : \A n \in S : n <= m

EmptyDict == [k \in {} |-> ""]

\* dict.update(e)
update(d, e) ==
    [k \in (DOMAIN d) \cup (DOMAIN e) |-> IF k \in DOMAIN e THEN e[k] ELSE d[k]]

(* ---------------- str() and int() on Miller indices ---------------- *)
DigitChars == <<"0", "1", "2", "3", "4", "5", "6", "7", "8", "9">>

\* int(i) for a one-character string: defined on decimal digits only
int_ok(c) == c \in Range(DigitChars)

int(c) == CHOOSE n \in 0..9 : DigitChars[n + 1] = c

\* str(i) for a single-digit integer, as characters
str(i) == IF i < 0 THEN <<"-", DigitChars[(-i) + 1]>> ELSE <<DigitChars[i + 1]>>

\* ''.join([str(i) for i in slab.miller_index])
mi_string(slab) ==
    str(slab.miller_index[1]) \o str(slab.miller_index[2]) \o str(slab.miller_index[3])

(* ---------------- the geometry library, as the code uses it ---------------- *)
Structures == {"prim", "conv"}

Molecules == {"H2", "CO"}

\* SpacegroupAnalyzer(structure).get_conventional_standard_structure()
get_conventional_standard_structure(structure) == "conv"

\* the symmetrically distinct terminations of a structure, by Miller index and shift
SlabUniverse(structure) ==
    IF structure = "conv"
    THEN << [miller_index |-> <<1, 0, 0>>, shift |-> 0],
            [miller_index |-> <<1, 1, 0>>, shift |-> 0],
            [miller_index |-> <<1, 1, 1>>, shift |-> 0],
            [miller_index |-> <<1, 1, 1>>, shift |-> 1],
            [miller_index |-> <<2, 1, 0>>, shift |-> 0] >>
    ELSE << [miller_index |-> <<1, 0, 0>>, shift |-> 0],
            [miller_index |-> <<1, -1, 0>>, shift |-> 0],
            [miller_index |-> <<1, 1, 1>>, shift |-> 1] >>

\* the geometry of a slab cut from a structure
Slab(structure, miller_index, shift, min_slab_size, min_vacuum_size, max_normal_search, center_slab) ==
    [structure |-> structure, miller_index |-> miller_index, shift |-> shift,
     min_slab_size |-> min_slab_size, min_vacuum_size |-> min_vacuum_size,
     max_normal_search |-> max_normal_search, center_slab |-> center_slab]

InIndexRange(u, max_index) ==
    \A i \in 1..3 : Abs(u.miller_index[i]) <= max_index

generate_decorated_slabs(structure, max_index, min_slab_size, min_vacuum_size, max_normal_search, center_slab) ==
    LET sel == SelectSeq(SlabUniverse(structure), LAMBDA u : InIndexRange(u, max_index))
    IN [i \in 1..Len(sel) |->
          Slab(structure, sel[i].miller_index, sel[i].shift, min_slab_size,
               min_vacuum_size, max_normal_search, center_slab)]

\* SlabTransformation(**params).apply_transformation(structure)
SlabTransformation(structure, params) ==
    Slab(structure, params.miller_index, params.shift, params.min_slab_size,
         params.min_vacuum_size, params.max_normal_search, params.center_slab)

\* AdsorbateSiteFinder(slab).generate_adsorption_structures(molecule): how many
\* candidate structures the site finder returns for the pair
generate_adsorption_structures(slab, molecule) ==
    (slab.shift + Abs(slab.miller_index[1]) + Abs(slab.miller_index[2])
       + Abs(slab.miller_index[3]) + (IF molecule = "CO" THEN 1 ELSE 0))
      % (MaxSites + 1)

(* ---------------- input sets ---------------- *)
\* v.incar.get("LDAU", None) of v = vasp_input_set or MVLSlabSet(structure, bulk=True)
incar_LDAU(vasp_input_set) == vasp_input_set = "UserSetLDAU"

MVLSlabSet(structure, user_incar_settings) ==
    [cls |-> "MVLSlabSet", structure |-> structure,
     user_incar_settings |-> user_incar_settings]

dipole_dict == [LDIPOL |-> "True", IDIPOL |-> "3", DIPOL |-> "[0, 0, 0.5]"]

(* ---------------- get_wf_adsorption ---------------- *)
Name(kind, formula, mi, molecule) ==
    [kind |-> kind, formula |-> formula, mi_string |-> mi, molecule |-> molecule]

\* fws.append(OptimizeFW(structure=structure, vasp_input_set=v, ...))
bulk_fw(structure, vasp_input_set) ==
    [fw |-> "OptimizeFW",
     name |-> Name("structure optimization", structure, <<>>, ""),
     structure |-> structure,
     transformations |-> <<>>,
     transformation_params |-> <<>>,
     parents |-> {},
     vasp_input_set |-> [cls |-> vasp_input_set, structure |-> structure,
                         user_incar_settings |-> EmptyDict]]

slab_trans_params(slab, a) ==
    [miller_index |-> slab.miller_index,
     min_slab_size |-> a.min_slab_size,
     min_vacuum_size |-> a.min_vacuum_size,
     shift |-> slab.shift,
     center_slab |-> TRUE,
     max_normal_search |-> a.max_normal_search]

\* slab_fw built without parents=fws[0]
slab_fw_orphan(slab, structure, a, slab_incar_params) ==
    [fw |-> "TransmuterFW",
     name |-> Name("slab optimization", structure, mi_string(slab), ""),
     structure |-> structure,
     transformations |-> <<"SlabTransformation">>,
     transformation_params |-> <<slab_trans_params(slab, a)>>,
     parents |-> {},
     vasp_input_set |-> MVLSlabSet(slab, slab_incar_params)]

\* the slab optimization firework; parents=fws[0] is position 1 of the list
slab_fw(slab, structure, a, slab_incar_params) ==
    [fw |-> "TransmuterFW",
     name |-> Name("slab optimization", structure, mi_string(slab), ""),
     structure |-> structure,
     transformations |-> <<"SlabTransformation">>,
     transformation_params |-> <<slab_trans_params(slab, a)>>,
     parents |-> {1},
     vasp_input_set |-> MVLSlabSet(slab, slab_incar_params)]

\* ads_fw whose parent is the last firework of the list instead of fws[0]
ads_fw_on_last(slab, molecule, n, structure, a, ads_incar_params) ==
    [fw |-> "TransmuterFW",
     name |-> Name("adsorbate optimization", structure, mi_string(slab), molecule),
     structure |-> structure,
     transformations |-> <<"SlabTransformation", "SupercellTransformation",
                           "InsertSitesTransformation",
                           "AddSitePropertyTransformation">>,
     transformation_params |-> <<slab_trans_params(slab, a),
                                 [scaling_matrix |-> <<slab, molecule, n>>],
                                 [species |-> molecule, coords |-> <<slab, molecule, n>>],
                                 [site_properties |-> <<slab, molecule, n>>]>>,
     parents |-> {2},
     vasp_input_set |-> MVLSlabSet(structure, ads_incar_params)]

\* the adsorbate optimization firework of the n-th candidate structure
ads_fw(slab, molecule, n, structure, a, ads_incar_params) ==
    [fw |-> "TransmuterFW",
     name |-> Name("adsorbate optimization", structure, mi_string(slab), molecule),
     structure |-> structure,
     transformations |-> <<"SlabTransformation", "SupercellTransformation",
                           "InsertSitesTransformation",
                           "AddSitePropertyTransformation">>,
     transformation_params |-> <<slab_trans_params(slab, a),
                                 [scaling_matrix |-> <<slab, molecule, n>>],
                                 [species |-> molecule, coords |-> <<slab, molecule, n>>],
                                 [site_properties |-> <<slab, molecule, n>>]>>,
     parents |-> {1},
     vasp_input_set |-> MVLSlabSet(structure, ads_incar_params)]

\* for struct in structures: ... fws.append(TransmuterFW(...))
struct_loop(slab, molecule, structure, a, ads_incar_params) ==
    [n \in 1..generate_adsorption_structures(slab, molecule) |->
        ads_fw(slab, molecule, n, structure, a, ads_incar_params)]

\* molecule_loop that stops after the first molecule of the list
molecule_loop_first_only(mols, slab, structure, a, ads_incar_params) ==
    IF mols = <<>> THEN <<>>
    ELSE struct_loop(slab, Head(mols), structure, a, ads_incar_params)

RECURSIVE molecule_loop(_, _, _, _, _)
\* for molecule in adsorbate_config[mi_string]: ...
molecule_loop(mols, slab, structure, a, ads_incar_params) ==
    IF mols = <<>> THEN <<>>
    ELSE struct_loop(slab, Head(mols), structure, a, ads_incar_params)
           \o molecule_loop(Tail(mols), slab, structure, a, ads_incar_params)

\* the body of "for slab in slabs", for a slab whose key is requested
slab_step(slab, structure, a, st) ==
    LET sp == IF a.auto_dipole THEN update(st.slab_incar_params, dipole_dict)
              ELSE st.slab_incar_params
        ap == IF a.auto_dipole THEN update(st.ads_incar_params, dipole_dict)
              ELSE st.ads_incar_params
        mols == a.adsorbate_config[mi_string(slab)]
    IN [fws |-> Append(st.fws, slab_fw(slab, structure, a, sp))
                  \o molecule_loop(mols, slab, structure, a, ap),
        slab_incar_params |-> sp,
        ads_incar_params |-> ap]

RECURSIVE slab_loop(_, _, _, _)
\* for slab in slabs: if mi_string in adsorbate_config.keys(): ...
slab_loop(slabs, structure, a, st) ==
    IF slabs = <<>> THEN st
    ELSE IF mi_string(Head(slabs)) \in DOMAIN a.adsorbate_config
         THEN slab_loop(Tail(slabs), structure, a, slab_step(Head(slabs), structure, a, st))
         ELSE slab_loop(Tail(slabs), structure, a, st)

\* the structure all slabs are cut from
normalized(a) ==
    IF a.conventional THEN get_conventional_standard_structure(a.structure)
    ELSE a.structure

\* the characters of ''.join(adsorbate_config.keys())
key_chars(a) == UNION {Range(key) : key \in DOMAIN a.adsorbate_config}

max_index(a) == SetMax({int(c) : c \in key_chars(a)})

slabs_of(a) ==
    generate_decorated_slabs(normalized(a), max_index(a), a.min_slab_size,
                             a.min_vacuum_size, a.max_normal_search, a.center_slab)

mi_strings(slabs) == [i \in 1..Len(slabs) |-> mi_string(slabs[i])]

Raised(msg, listing, st) ==
    [status |-> "raised",
     error |-> [type |-> "ValueError", msg |-> msg, listing |-> listing],
     wfname |-> "",
     fws |-> st.fws,
     slab_incar_params |-> st.slab_incar_params,
     ads_incar_params |-> st.ads_incar_params]

Returned(wfname, st) ==
    [status |-> "returned",
     error |-> [type |-> "", msg |-> "", listing |-> <<>>],
     wfname |-> wfname,
     fws |-> st.fws,
     slab_incar_params |-> st.slab_incar_params,
     ads_incar_params |-> st.ads_incar_params]

\* the state of the call when line 121 is reached
before_validation(a, slab_in, ads_in) ==
    LET ldau == incar_LDAU(a.vasp_input_set)
    IN [fws |-> <<bulk_fw(normalized(a), a.vasp_input_set)>>,
        slab_incar_params |-> IF ~ldau THEN update(slab_in, [LDAU |-> "False"])
                              ELSE slab_in,
        ads_incar_params |-> IF ~ldau THEN update(ads_in, [LDAU |-> "False"])
                             ELSE ads_in]

\* get_wf_adsorption_body with the key check placed after the slab loop
get_wf_adsorption_body_late_check(a, slab_in, ads_in) ==
    LET st0 == before_validation(a, slab_in, ads_in)
    IN IF \E c \in key_chars(a) : ~int_ok(c)
       THEN Raised("invalid literal for int()", <<>>, st0)
       ELSE IF key_chars(a) = {}
       THEN Raised("max() arg is an empty sequence", <<>>, st0)
       ELSE IF \E key \in DOMAIN a.adsorbate_config :
                  key \notin Range(mi_strings(slabs_of(a)))
       THEN Raised("Miller index not in generated slab list. Unique slabs are",
                   mi_strings(slabs_of(a)),
                   slab_loop(slabs_of(a), normalized(a), a, st0))
       ELSE Returned("Adsorbate calculations",
                     slab_loop(slabs_of(a), normalized(a), a, st0))

\* one call, on the two dictionary objects bound to slab_incar_params and
\* ads_incar_params; the result carries the dictionaries as the call leaves them
get_wf_adsorption_body(a, slab_in, ads_in) ==
    LET st0 == before_validation(a, slab_in, ads_in)
    IN IF \E c \in key_chars(a) : ~int_ok(c)
       THEN Raised("invalid literal for int()", <<>>, st0)
       ELSE IF key_chars(a) = {}
       THEN Raised("max() arg is an empty sequence", <<>>, st0)
       ELSE IF \E key \in DOMAIN a.adsorbate_config :
                  key \notin Range(mi_strings(slabs_of(a)))
       THEN Raised("Miller index not in generated slab list. Unique slabs are",
                   mi_strings(slabs_of(a)), st0)
       ELSE Returned("Adsorbate calculations",
                     slab_loop(slabs_of(a), normalized(a), a, st0))

(* ---------------- get_wf_molecules ---------------- *)
DefaultMoleculeVacuum == 15

VisIds == {"vis1", "vis2"}

\* the input sets the caller owns, by their config_dict
InitialVisCfg ==
    [v \in VisIds |->
        IF v = "vis1" THEN [KPOINTS |-> [reciprocal_density |-> "64"]]
        ELSE [KPOINTS |-> [length |-> "25"]]]

\* MPRelaxSet(m_struct, user_incar_settings={"ISMEAR":0, "IBRION":5, "ISIF":2}).config_dict
MPRelaxSet_config_dict == [KPOINTS |-> [reciprocal_density |-> "64"]]

\* v.config_dict["KPOINTS"].update({"reciprocal_density": 1})
kpoints_update(config_dict) ==
    [config_dict EXCEPT !.KPOINTS = update(@, [reciprocal_density |-> "1"])]

\* the molecule centred in a cubic cell of edge min_vacuum_size
m_struct(molecule, min_vacuum_size) ==
    [lattice |-> min_vacuum_size, molecule |-> molecule, centroid |-> "0.5 0.5 0.5"]

\* molecule_fw given the first firework as parent, as the adsorption builder does
molecule_fw_parented(molecule, min_vacuum_size, config_dict) ==
    [fw |-> "OptimizeFW",
     name |-> Name("structure optimization", molecule, <<>>, molecule),
     structure |-> m_struct(molecule, min_vacuum_size),
     transformations |-> <<>>,
     transformation_params |-> <<>>,
     parents |-> {1},
     vasp_input_set |-> [cls |-> "DictSet",
                         structure |-> m_struct(molecule, min_vacuum_size),
                         config_dict |-> config_dict]]

\* fws.append(OptimizeFW(structure=m_struct, vasp_input_set=v, ...))
molecule_fw(molecule, min_vacuum_size, config_dict) ==
    [fw |-> "OptimizeFW",
     name |-> Name("structure optimization", molecule, <<>>, molecule),
     structure |-> m_struct(molecule, min_vacuum_size),
     transformations |-> <<>>,
     transformation_params |-> <<>>,
     parents |-> {},
     vasp_input_set |-> [cls |-> "DictSet",
                         structure |-> m_struct(molecule, min_vacuum_size),
                         config_dict |-> config_dict]]

\* one iteration of the loop: a caller's input set is updated in place
zip_step(molecule, vis, min_vacuum_size, st) ==
    LET cd == kpoints_update(IF vis = "None" THEN MPRelaxSet_config_dict
                             ELSE st.cfg[vis])
    IN [fws |-> Append(st.fws, molecule_fw(molecule, min_vacuum_size, cd)),
        cfg |-> IF vis = "None" THEN st.cfg ELSE [st.cfg EXCEPT ![vis] = cd]]

RECURSIVE zip_loop(_, _, _, _)
\* for molecule, vis in zip(molecules, vasp_input_sets): ...
zip_loop(molecules, sets, min_vacuum_size, st) ==
    IF molecules = <<>> \/ sets = <<>> THEN st
    ELSE zip_loop(Tail(molecules), Tail(sets), min_vacuum_size,
                  zip_step(Head(molecules), Head(sets), min_vacuum_size, st))

\* vasp_input_sets = vasp_input_sets or [None for m in molecules]
sets_or_none(a) ==
    IF a.vasp_input_sets_given /\ a.vasp_input_sets # <<>>
    THEN a.vasp_input_sets
    ELSE [i \in 1..Len(a.molecules) |-> "None"]

get_wf_molecules_body(a, cfg) ==
    zip_loop(a.molecules, sets_or_none(a), a.min_vacuum_size, [fws |-> <<>>, cfg |-> cfg])

(* ---------------- the arguments of the calls ---------------- *)
K111 == <<"1", "1", "1">>
K100 == <<"1", "0", "0">>
K1m10 == <<"1", "-", "1", "0">>
K22 == <<"2", "2">>

\* keys a caller may write: Miller-index strings, among them one of a negative
\* index as mi_string writes it, and one no slab has
KeyStrings == {K111, K100, K1m10, K22}

MolLists == UNION {[1..n -> Molecules] : n \in 0..MaxMols}

Configs ==
    UNION {[ks -> MolLists] : ks \in {S \in SUBSET KeyStrings : Cardinality(S) <= MaxKeys}}

AdsorptionArgs(structures, configs, input_sets, centerings, conventionals, passings, dipoles) ==
    [structure : structures, adsorbate_config : configs, vasp_input_set : input_sets,
     min_slab_size : {DefaultMinSlabSize}, min_vacuum_size : {DefaultMinVacuumSize},
     center_slab : centerings, max_normal_search : {DefaultMaxNormalSearch},
     conventional : conventionals, pass_slab : passings, pass_ads : passings,
     auto_dipole : dipoles]

\* the first call of a process: every structure and configuration, the input
\* set and the dictionaries left at their defaults
FirstAdsorptionArgs ==
    AdsorptionArgs(Structures, Configs, {"None"}, BOOLEAN, BOOLEAN, {FALSE}, BOOLEAN)

\* calls that follow one another: dictionaries passed or omitted
RepeatConfigs == {[ks \in {K111} |-> <<"H2">>], [ks \in {K22} |-> <<"H2">>]}

RepeatAdsorptionArgs ==
    AdsorptionArgs({"conv"}, RepeatConfigs, {"None", "UserSetLDAU"}, {TRUE}, {TRUE},
                   BOOLEAN, BOOLEAN)

InputSetLists == UNION {[1..n -> VisIds \cup {"None"}] : n \in 0..(MaxMols + 1)}

FirstMoleculesArgs ==
    [molecules : MolLists, vasp_input_sets_given : {TRUE}, vasp_input_sets : InputSetLists,
     min_vacuum_size : {DefaultMoleculeVacuum}]
    \cup [molecules : MolLists, vasp_input_sets_given : {FALSE}, vasp_input_sets : {<<>>},
          min_vacuum_size : {DefaultMoleculeVacuum}]

RepeatMoleculesArgs ==
    {a \in FirstMoleculesArgs :
        a.molecules = <<"H2">> /\ a.vasp_input_sets \in {<<>>, <<"vis1">>}}

(* ---------------- state and operations ---------------- *)
\* the dictionaries of the def line (slab_incar_params={}, ads_incar_params={}),
\* created once; the caller's own dictionaries and input sets
Init ==
    /\ defaults = [slab_incar_params |-> EmptyDict, ads_incar_params |-> EmptyDict]
    /\ caller = [slab_incar_params |-> [ENCUT |-> "400"], ads_incar_params |-> EmptyDict]
    /\ visCfg = InitialVisCfg
    /\ call = [fn |-> "none"]
    /\ ret = [status |-> "none"]
    /\ fws = <<>>
    /\ jobState = <<>>

\* a call of get_wf_adsorption with arguments a
AdsorptionCall(a) ==
    LET slab_in == IF a.pass_slab THEN caller.slab_incar_params
                   ELSE defaults.slab_incar_params
        ads_in == IF a.pass_ads THEN caller.ads_incar_params
                  ELSE defaults.ads_incar_params
        r == get_wf_adsorption_body(a, slab_in, ads_in)
    IN /\ call' = [fn |-> "get_wf_adsorption", args |-> a,
                   caller_before |-> caller, vis_before |-> visCfg]
       /\ defaults' = [slab_incar_params |-> IF a.pass_slab THEN defaults.slab_incar_params
                                             ELSE r.slab_incar_params,
                       ads_incar_params |-> IF a.pass_ads THEN defaults.ads_incar_params
                                            ELSE r.ads_incar_params]
       /\ caller' = [slab_incar_params |-> IF a.pass_slab THEN r.slab_incar_params
                                           ELSE caller.slab_incar_params,
                     ads_incar_params |-> IF a.pass_ads THEN r.ads_incar_params
                                          ELSE caller.ads_incar_params]
       /\ ret' = [status |-> r.status, error |-> r.error, wfname |-> r.wfname]
       /\ fws' = r.fws
       /\ jobState' = <<>>
       /\ UNCHANGED visCfg

\* a call of get_wf_molecules with arguments a
MoleculesCall(a) ==
    LET r == get_wf_molecules_body(a, visCfg)
    IN /\ call' = [fn |-> "get_wf_molecules", args |-> a,
                   caller_before |-> caller, vis_before |-> visCfg]
       /\ visCfg' = r.cfg
       /\ ret' = [status |-> "returned",
                  error |-> [type |-> "", msg |-> "", listing |-> <<>>],
                  wfname |-> "Molecule calculations"]
       /\ fws' = r.fws
       /\ jobState' = <<>>
       /\ UNCHANGED <<defaults, caller>>

get_wf_adsorption == \E a \in RepeatAdsorptionArgs : AdsorptionCall(a)

get_wf_molecules == \E a \in RepeatMoleculesArgs : MoleculesCall(a)

first_get_wf_adsorption ==
    /\ call.fn = "none"
    /\ \E a \in FirstAdsorptionArgs : AdsorptionCall(a)

first_get_wf_molecules ==
    /\ call.fn = "none"
    /\ \E a \in FirstMoleculesArgs : MoleculesCall(a)

(* ---------------- the engine running a returned workflow ---------------- *)
build_wf ==
    /\ call.fn = "none"
    /\ \E a \in RepeatAdsorptionArgs : AdsorptionCall(a)

add_wf ==
    /\ call.fn = "get_wf_adsorption"
    /\ ret.status = "returned"
    /\ jobState = <<>>
    /\ jobState' = [i \in 1..Len(fws) |-> "WAITING"]
    /\ UNCHANGED <<defaults, caller, visCfg, call, ret, fws>>

start_job ==
    \E i \in 1..Len(jobState) :
        /\ jobState[i] = "WAITING"
        /\ \A p \in fws[i].parents : jobState[p] = "COMPLETED"
        /\ jobState' = [jobState EXCEPT ![i] = "RUNNING"]
        /\ UNCHANGED <<defaults, caller, visCfg, call, ret, fws>>

complete_job ==
    \E i \in 1..Len(jobState) :
        /\ jobState[i] = "RUNNING"
        /\ jobState' = [jobState EXCEPT ![i] = "COMPLETED"]
        /\ UNCHANGED <<defaults, caller, visCfg, call, ret, fws>>

fizzle_job ==
    \E i \in 1..Len(jobState) :
        /\ jobState[i] = "RUNNING"
        /\ jobState' = [jobState EXCEPT ![i] = "FIZZLED"]
        /\ UNCHANGED <<defaults, caller, visCfg, call, ret, fws>>

(* ---------------- specifications ---------------- *)
\* calls following one another in one process
Next == get_wf_adsorption \/ get_wf_molecules

Spec == Init /\ [][Next]_vars

\* the first call of a process, over every configuration
NextFirst == first_get_wf_adsorption \/ first_get_wf_molecules

SpecFirst == Init /\ [][NextFirst]_vars

\* a workflow is built, handed to the engine and run
NextEngine == build_wf \/ add_wf \/ start_job \/ complete_job \/ fizzle_job

SpecEngine == Init /\ [][NextEngine]_vars

(* ---------------- vocabulary of the properties ---------------- *)
IsAdsorptionCall == call.fn = "get_wf_adsorption"

IsMoleculesCall == call.fn = "get_wf_molecules"

IsBulkJob(job) == job.fw = "OptimizeFW"

IsSlabJob(job) == job.name.kind = "slab optimization"

IsAdsJob(job) == job.name.kind = "adsorbate optimization"

JobsWhere(P(_)) == {i \in 1..Len(fws) : P(fws[i])}

\* the slabs a call generates; none when max_index cannot be computed
GeneratedSlabs(a) ==
    IF key_chars(a) # {} /\ \A c \in key_chars(a) : int_ok(c) THEN slabs_of(a) ELSE <<>>

\* some requested key is not the Miller-index string of a generated slab
HasUnmatchedKey(a) ==
    \E key \in DOMAIN a.adsorbate_config : key \notin Range(mi_strings(GeneratedSlabs(a)))

RECURSIVE SumOver(_, _)
SumOver(S, f) ==
    IF S = {} THEN 0
    ELSE LET x == CHOOSE y \in S : TRUE IN f[x] + SumOver(S \ {x}, f)

\* (generated slab, position in the list requested for its key), for requested slabs
RequestedPairs(a) ==
    LET slabs == GeneratedSlabs(a)
    IN {p \in (1..Len(slabs)) \X (1..(MaxMols + 1)) :
          /\ mi_string(slabs[p[1]]) \in DOMAIN a.adsorbate_config
          /\ p[2] <= Len(a.adsorbate_config[mi_string(slabs[p[1]])])}

ExpectedAdsJobs(a) ==
    LET slabs == GeneratedSlabs(a)
    IN SumOver(RequestedPairs(a),
               [p \in RequestedPairs(a) |->
                  generate_adsorption_structures(
                      slabs[p[1]], a.adsorbate_config[mi_string(slabs[p[1]])][p[2]])])

Overrides(jobs) == [i \in 1..Len(jobs) |-> jobs[i].vasp_input_set.user_incar_settings]

(* ---------------- C1 ---------------- *)
\* C1: a workflow returned by get_wf_adsorption has exactly one job without
\* parents, the bulk relaxation job created first, and every other job lists
\* that job as a parent.
C1_SingleRoot ==
    (IsAdsorptionCall /\ ret.status = "returned") =>
        /\ Len(fws) >= 1
        /\ IsBulkJob(fws[1])
        /\ {i \in 1..Len(fws) : fws[i].parents = {}} = {1}
        /\ \A i \in 2..Len(fws) :
              /\ IsSlabJob(fws[i]) \/ IsAdsJob(fws[i])
              /\ 1 \in fws[i].parents

C1_Witness ==
    /\ IsAdsorptionCall
    /\ ret.status = "returned"
    /\ Cardinality(JobsWhere(IsSlabJob)) >= 2
    /\ Cardinality(JobsWhere(IsAdsJob)) >= 2

(* ---------------- C2 ---------------- *)
\* C2: a call with a key that is not the Miller-index string of a generated slab
\* ends in the error that enumerates the generated slabs' Miller-index strings,
\* and returns no workflow.
C2_UnmatchedKeyListed ==
    (IsAdsorptionCall /\ HasUnmatchedKey(call.args)) =>
        /\ ret.status = "raised"
        /\ ret.error.msg = "Miller index not in generated slab list. Unique slabs are"
        /\ ret.error.listing = mi_strings(GeneratedSlabs(call.args))

(* ---------------- C3 ---------------- *)
\* C3 as stated: when the call fails on an unmatched key, no job descriptor has
\* been constructed at the moment the error is raised.
C3_NoJobAtRaise ==
    (IsAdsorptionCall /\ HasUnmatchedKey(call.args) /\ ret.status = "raised") =>
        fws = <<>>

\* C3 as amended: when the call fails on an unmatched key, no slab job and no
\* adsorbate job has been constructed; the list holds the bulk relaxation job only.
C3_OnlyBulkAtRaise ==
    (IsAdsorptionCall /\ HasUnmatchedKey(call.args)) =>
        /\ ret.status = "raised"
        /\ Len(fws) = 1
        /\ IsBulkJob(fws[1])
        /\ JobsWhere(IsSlabJob) = {}
        /\ JobsWhere(IsAdsJob) = {}

\* a failing call in which another key matches a generated slab
C3_Witness ==
    /\ IsAdsorptionCall
    /\ ret.status = "raised"
    /\ ret.error.listing # <<>>
    /\ \E key \in DOMAIN call.args.adsorbate_config :
          /\ key \in Range(ret.error.listing)
          /\ call.args.adsorbate_config[key] # <<>>

(* ---------------- C4 ---------------- *)
\* C4: the adsorbate jobs of a returned workflow number the candidate structures
\* of the site finder, summed over the generated slabs whose key is requested and
\* over the molecules requested for the key; no job belongs to an unrequested slab.
C4_AdsJobCount ==
    (IsAdsorptionCall /\ ret.status = "returned") =>
        /\ Cardinality(JobsWhere(IsAdsJob)) = ExpectedAdsJobs(call.args)
        /\ \A i \in 2..Len(fws) :
              fws[i].name.mi_string \in DOMAIN call.args.adsorbate_config

\* two slabs of one requested key, two molecules, an unrequested slab generated
C4_Witness ==
    /\ IsAdsorptionCall
    /\ ret.status = "returned"
    /\ Cardinality(JobsWhere(IsAdsJob)) >= 3
    /\ \E key \in DOMAIN call.args.adsorbate_config :
          Len(call.args.adsorbate_config[key]) = 2
    /\ \E i \in 1..Len(GeneratedSlabs(call.args)) :
          mi_string(GeneratedSlabs(call.args)[i]) \notin DOMAIN call.args.adsorbate_config

(* ---------------- C5 ---------------- *)
\* C5: a call with slab_incar_params and ads_incar_params omitted attaches to its
\* jobs the overrides that the same arguments give in a first call.
C5_CallsIndependent ==
    (IsAdsorptionCall /\ ~call.args.pass_slab /\ ~call.args.pass_ads) =>
        Overrides(fws) = Overrides(get_wf_adsorption_body(call.args, EmptyDict, EmptyDict).fws)

(* ---------------- C6 ---------------- *)
\* C6: a call leaves the caller's slab_incar_params and ads_incar_params, and
\* the configuration of the caller's input sets, as they were before the call.
C6_NoSideEffect ==
    /\ IsAdsorptionCall => caller = call.caller_before
    /\ IsMoleculesCall => visCfg = call.vis_before

(* ---------------- C7 ---------------- *)
\* C7: every job of a workflow returned by get_wf_molecules is parentless.
C7_NoEdges ==
    IsMoleculesCall => \A i \in 1..Len(fws) : fws[i].parents = {}

C7_Witness ==
    /\ IsMoleculesCall
    /\ Len(fws) >= 2

(* ---------------- C8 ---------------- *)
\* C8: in a run of a returned adsorption workflow, a slab or adsorbate job that
\* has started finds the bulk relaxation job completed.
C8_BulkFirst ==
    \A i \in 1..Len(jobState) :
        (~IsBulkJob(fws[i]) /\ jobState[i] # "WAITING") => jobState[1] = "COMPLETED"

C8_Witness ==
    /\ \E i \in 1..Len(jobState) : IsSlabJob(fws[i]) /\ jobState[i] = "RUNNING"
    /\ \E i \in 1..Len(jobState) : IsAdsJob(fws[i]) /\ jobState[i] = "COMPLETED"

(* ---------------- C9 ---------------- *)
\* C9: replaying the slab-cut parameters of a slab job on the normalized bulk
\* structure gives the slab the job was generated for.
C9_RoundTrip ==
    (IsAdsorptionCall /\ ret.status = "returned") =>
        \A i \in JobsWhere(IsSlabJob) :
            SlabTransformation(fws[i].structure, fws[i].transformation_params[1])
                = fws[i].vasp_input_set.structure

(* ---------------- C10 ---------------- *)
\* C10: the workflow of get_wf_molecules has one job per input molecule, in
\* input order.
C10_OneJobPerMolecule ==
    IsMoleculesCall =>
        /\ Len(fws) = Len(call.args.molecules)
        /\ \A i \in 1..Len(fws) : fws[i].structure.molecule = call.args.molecules[i]

====
